---- MODULE Spec2Model ----
(***************************************************************************)
(* Plant journal: the local journal store (services/storage) and the AI    *)
(* provider abstraction (services/ai), with the App handlers that call     *)
(* them.                                                                   *)
(*                                                                         *)
(* JavaScript values are modelled as follows.                              *)
(*  - a string whose characters matter (a note text) is a sequence of      *)
(*    one-character strings; a string that is only compared is a TLA+      *)
(*    string;                                                              *)
(*  - Date.now() is the variable now; Date.now().toString() is the decimal *)
(*    digit sequence of it;                                                *)
(*  - a JavaScript value that getPlants can return is a record             *)
(*    [t, items]: t = "array" with its elements, or "null", or "object";   *)
(*  - the item under STORAGE_KEY is a record [kind, items]: "absent"       *)
(*    (getItem returns null), "empty" (the empty string), "garbage" (text  *)
(*    JSON.parse rejects), "null" / "object" (the JSON texts null and {}), *)
(*    or "array" (the JSON text of an array, with its elements).           *)
(***************************************************************************)
EXTENDS Integers, Sequences, FiniteSets, TLC

\* ------------------------------------------------------------------ bounds
Epoch == 9         \* Date.now() when the page loads
MaxClock == 2      \* Date.now() ranges over Epoch..Epoch+MaxClock-1
MaxPlants == 3     \* entries in the stored collection
MaxNoted == 2      \* entries in the stored collection, when notes are added
MaxFew == 1        \* notes over the whole collection, when all operations run
MaxNotes == 3      \* notes over the whole collection
MaxParts == 2      \* parts of a Gemini candidate
MaxToasts == 2     \* pending setTimeout callbacks of showToast

VARIABLES
  storage,          \* localStorage item under STORAGE_KEY
  readable,         \* FALSE: localStorage.getItem throws
  writable,         \* FALSE: localStorage.setItem throws (the quota is used up)
  now,              \* Date.now()
  last,             \* the last store call: its arguments, return value, effects
  again             \* TRUE: the call before it was the same operation on the same id

storeVars == <<storage, readable, writable, now, last, again>>

VARIABLES
  env,              \* TRUE: process.env.API_KEY_OPENAI is set now
  OPENAI_API_KEY,   \* TRUE: process.env.API_KEY_OPENAI was set when ai.ts loaded
  GEMINI_API_KEY,   \* TRUE: process.env.API_KEY was set when ai.ts loaded
  aiCall,           \* the identifyPlant or generatePlantImage call in flight
  aiLast            \* the latest call, once it has ended: backend, response, result

keys == <<env, OPENAI_API_KEY, GEMINI_API_KEY>>
aiVars == <<keys, aiCall, aiLast>>

VARIABLES
  appPlants,        \* App state plants: the cached copy of the collection
  selectedPlant,    \* App state selectedPlant: null or an entry
  view,             \* App state view
  toast,            \* App state toast: null or a message
  timers,           \* pending setTimeout callbacks of showToast
  uiLast            \* the last App handler that ran: its input, the state before

VARIABLES
  generating,       \* App state generating
  prompt,           \* App state prompt: the text of the generator's textarea
  generatedImage    \* App state generatedImage: null or a data URI

VARIABLES
  analyzing,        \* App state analyzing
  capturedImage,    \* App state capturedImage: null or an image
  analysisResult,   \* App state analysisResult: null or a PlantAnalysis
  reads,            \* images whose FileReader has not ended
  identifying       \* identifyPlant calls of runIdentification in flight

genVars == <<generating, prompt, generatedImage>>
camVars == <<analyzing, capturedImage, analysisResult, reads, identifying>>
uiVars ==
  <<appPlants, selectedPlant, view, toast, timers, uiLast, genVars, camVars>>

\* ------------------------------------------------------- JavaScript values
JSArray(items) == [t |-> "array", items |-> items]
JSNull == [t |-> "null", items |-> <<>>]
JSObject == [t |-> "object", items |-> <<>>]

\* Number.prototype.toString: the decimal digits of n >= 0
RECURSIVE toString(_)
toString(n) == IF n < 10 THEN <<n>> ELSE toString(n \div 10) \o <<n % 10>>

\* Date.prototype.toISOString of the instant t
toISOString(t) == [iso |-> t]

\* String.prototype.trim: strips leading and trailing white space
RECURSIVE trimStart(_)
trimStart(s) == IF s # <<>> /\ Head(s) = " " THEN trimStart(Tail(s)) ELSE s

RECURSIVE trimEnd(_)
trimEnd(s) ==
  IF s # <<>> /\ s[Len(s)] = " " THEN trimEnd(SubSeq(s, 1, Len(s) - 1)) ELSE s

trim(s) == trimEnd(trimStart(s))

\* ------------------------------------------------------------ localStorage
Absent == [kind |-> "absent", items |-> <<>>]
EmptyText == [kind |-> "empty", items |-> <<>>]
Garbage == [kind |-> "garbage", items |-> <<>>]
NullText == [kind |-> "null", items |-> <<>>]
ObjectText == [kind |-> "object", items |-> <<>>]

\* JSON.stringify of an array of entries
JSONstringify(plants) == [kind |-> "array", items |-> plants]

\* JSON.parse of a text: the value, or a SyntaxError
JSONparseThrows(text) == text.kind \in {"empty", "garbage"}

JSONparse(text) ==
  CASE text.kind = "array" -> JSArray(text.items)
    [] text.kind = "null" -> JSNull
    [] OTHER -> JSObject

\* ----------------------------------------------------------------- storage
\* getPlants(): data ? JSON.parse(data) : [], and [] when anything throws
getPlants(st, rd) ==
  IF ~rd THEN JSArray(<<>>)                                   \* getItem threw
  ELSE IF st.kind \in {"absent", "empty"} THEN JSArray(<<>>)  \* data is falsy
  ELSE IF JSONparseThrows(st) THEN JSArray(<<>>)              \* parse threw
  ELSE JSONparse(st)

\* Array.prototype.findIndex(p => p.id === id), 1-based; -1 when none matches
findIndex(plants, id) ==
  IF \E i \in 1..Len(plants) : plants[i].id = id
  THEN CHOOSE i \in 1..Len(plants) :
         /\ plants[i].id = id
         /\ \A j \in 1..(i - 1) : plants[j].id # id
  ELSE -1

\* Array.prototype.filter(p => p.id !== id)
RECURSIVE filterNotId(_, _)
filterNotId(plants, id) ==
  IF plants = <<>> THEN <<>>
  ELSE IF Head(plants).id # id
       THEN <<Head(plants)>> \o filterNotId(Tail(plants), id)
       ELSE filterNotId(Tail(plants), id)

\* The outcome of a store call: the item afterwards, the value returned,
\* whether the call threw, and the number of setItem calls it made.
Outcome(st, ret, threw, writes) ==
  [storage |-> st, ret |-> ret, threw |-> threw, writes |-> writes]

Void == [t |-> "void", v |-> <<>>]
Null == [t |-> "null", v |-> <<>>]
Returned(t, v) == [t |-> t, v |-> v]
TypeError(st) == Outcome(st, Void, TRUE, 0)

Range(f) == {f[x] : x \in DOMAIN f}

\* plant.notes || []
notesOf(plant) == IF "notes" \in DOMAIN plant THEN plant.notes ELSE <<>>

\* savePlant with the entry appended: [...plants, plant]
savePlant_append(st, rd, plant) ==
  LET plants == getPlants(st, rd) IN
  IF plants.t # "array" THEN TypeError(st)
  ELSE Outcome(JSONstringify(plants.items \o <<plant>>), Void, FALSE, 1)

\* savePlant(plant): [plant, ...plants] replaces the stored text
savePlant(st, rd, plant) ==
  LET plants == getPlants(st, rd) IN
  IF plants.t # "array" THEN TypeError(st)      \* ...plants: not iterable
  ELSE Outcome(JSONstringify(<<plant>> \o plants.items), Void, FALSE, 1)

\* deletePlant removing the first match only: plants.splice(index, 1)
deletePlant_first(st, rd, id) ==
  LET plants == getPlants(st, rd) IN
  IF plants.t # "array" THEN TypeError(st)
  ELSE
    LET index == findIndex(plants.items, id)
        kept == IF index = -1 THEN plants.items
                ELSE SubSeq(plants.items, 1, index - 1)
                       \o SubSeq(plants.items, index + 1, Len(plants.items))
    IN Outcome(JSONstringify(kept), Void, FALSE, 1)

\* deletePlant(id): the entries whose id differs replace the stored text
deletePlant(st, rd, id) ==
  LET plants == getPlants(st, rd) IN
  IF plants.t # "array" THEN TypeError(st)      \* plants.filter
  ELSE Outcome(JSONstringify(filterNotId(plants.items, id)), Void, FALSE, 1)

\* addNoteToPlant with the note appended: [...notes, newNote]
addNoteToPlant_append(st, rd, plantId, noteText, t) ==
  LET plants == getPlants(st, rd) IN
  IF plants.t # "array" THEN TypeError(st)
  ELSE
    LET index == findIndex(plants.items, plantId) IN
    IF index = -1 THEN Outcome(st, Null, FALSE, 0)
    ELSE
      LET newNote == [id |-> toString(t), date |-> toISOString(t),
                      text |-> noteText]
          old == plants.items[index]
          plant == [notes |-> notesOf(old) \o <<newNote>>] @@ old
          updated == [plants.items EXCEPT ![index] = plant]
      IN Outcome(JSONstringify(updated), Returned("plant", plant), FALSE, 1)

\* addNoteToPlant writing the collection back before it looks for the entry
addNoteToPlant_writeFirst(st, rd, plantId, noteText, t) ==
  LET plants == getPlants(st, rd) IN
  IF plants.t # "array" THEN TypeError(st)
  ELSE
    LET index == findIndex(plants.items, plantId) IN
    IF index = -1 THEN Outcome(JSONstringify(plants.items), Null, FALSE, 1)
    ELSE
      LET newNote == [id |-> toString(t), date |-> toISOString(t),
                      text |-> noteText]
          old == plants.items[index]
          plant == [notes |-> <<newNote>> \o notesOf(old)] @@ old
          updated == [plants.items EXCEPT ![index] = plant]
      IN Outcome(JSONstringify(updated), Returned("plant", plant), FALSE, 1)

\* addNoteToPlant(plantId, noteText) at time t
addNoteToPlant(st, rd, plantId, noteText, t) ==
  LET plants == getPlants(st, rd) IN
  IF plants.t # "array" THEN TypeError(st)      \* plants.findIndex
  ELSE
    LET index == findIndex(plants.items, plantId) IN
    IF index = -1 THEN Outcome(st, Null, FALSE, 0)
    ELSE
      LET newNote == [id |-> toString(t), date |-> toISOString(t),
                      text |-> noteText]
          old == plants.items[index]
          plant == [notes |-> <<newNote>> \o notesOf(old)] @@ old
          updated == [plants.items EXCEPT ![index] = plant]
      IN Outcome(JSONstringify(updated), Returned("plant", plant), FALSE, 1)

\* toggleFavoritePlant setting the flag instead of flipping it
toggleFavoritePlant_set(st, rd, plantId) ==
  LET plants == getPlants(st, rd) IN
  IF plants.t # "array" THEN TypeError(st)
  ELSE
    LET index == findIndex(plants.items, plantId) IN
    IF index = -1 THEN Outcome(st, Null, FALSE, 0)
    ELSE
      LET updated == [plants.items EXCEPT ![index].isFavorite = TRUE]
      IN Outcome(JSONstringify(updated), Returned("plant", updated[index]), FALSE, 1)

\* toggleFavoritePlant returning the entry as it was read
toggleFavoritePlant_stale(st, rd, plantId) ==
  LET plants == getPlants(st, rd) IN
  IF plants.t # "array" THEN TypeError(st)
  ELSE
    LET index == findIndex(plants.items, plantId) IN
    IF index = -1 THEN Outcome(st, Null, FALSE, 0)
    ELSE
      LET updated ==
            [plants.items EXCEPT ![index].isFavorite = ~plants.items[index].isFavorite]
      IN Outcome(JSONstringify(updated), Returned("plant", plants.items[index]),
                 FALSE, 1)

\* toggleFavoritePlant flipping every entry that has the id
toggleFavoritePlant_all(st, rd, plantId) ==
  LET plants == getPlants(st, rd) IN
  IF plants.t # "array" THEN TypeError(st)
  ELSE
    LET index == findIndex(plants.items, plantId) IN
    IF index = -1 THEN Outcome(st, Null, FALSE, 0)
    ELSE
      LET updated ==
            [i \in 1..Len(plants.items) |->
               IF plants.items[i].id = plantId
               THEN [plants.items[i] EXCEPT !.isFavorite = ~@]
               ELSE plants.items[i]]
      IN Outcome(JSONstringify(updated), Returned("plant", updated[index]), FALSE, 1)

\* toggleFavoritePlant(plantId)
toggleFavoritePlant(st, rd, plantId) ==
  LET plants == getPlants(st, rd) IN
  IF plants.t # "array" THEN TypeError(st)      \* plants.findIndex
  ELSE
    LET index == findIndex(plants.items, plantId) IN
    IF index = -1 THEN Outcome(st, Null, FALSE, 0)
    ELSE
      LET updated ==
            [plants.items EXCEPT ![index].isFavorite = ~plants.items[index].isFavorite]
      IN Outcome(JSONstringify(updated), Returned("plant", updated[index]), FALSE, 1)

\* a store call whose localStorage.setItem throws, with the exception caught
\* in the store: the call returns as if it had written
setItemThrows_caught(st, out) == Outcome(st, out.ret, FALSE, out.writes)

\* a store call whose localStorage.setItem throws: the item keeps its value
\* and the exception leaves the store function, which has no try around it
setItemThrows(st, out) == Outcome(st, Void, TRUE, out.writes)

\* the outcome of a store call on an item that may not be writable; every
\* store function calls setItem last
setItem(st, wr, out) ==
  IF wr \/ out.writes = 0 THEN out ELSE setItemThrows(st, out)

\* ------------------------------------------------------- inputs of the store
Clock == Epoch..(Epoch + MaxClock - 1)
\* two entry ids: Date.now().toString() of two instants
Ids == {toString(Epoch), toString(Epoch + 1)}
Names == {"Rosa", "Ficus"}
Texts == {<<>>, <<" ", " ">>, <<" ", "w">>}

\* the entries savePlant is called with: UserPlant values (types.ts); the
\* analysis fields and the image, which the store never reads, are
\* represented by commonName
Entries ==
  [id : Ids, commonName : Names, isFavorite : BOOLEAN, notes : {<<>>}]

NotedEntries ==
  [id : Ids, commonName : {"Rosa"}, isFavorite : {FALSE}, notes : {<<>>}]

NoArg == <<>>
Call(op, id, text, arg, pre, out) ==
  [op |-> op, id |-> id, text |-> text, arg |-> arg, pre |-> pre,
   ret |-> out.ret, threw |-> out.threw, writes |-> out.writes]

NoteCount(st) ==
  LET RECURSIVE sum(_)
      sum(s) == IF s = <<>> THEN 0 ELSE Len(notesOf(Head(s))) + sum(Tail(s))
  IN sum(st.items)

\* ------------------------------------------------------------ store actions
StoreInit ==
  /\ storage = Absent
  /\ readable = TRUE
  /\ writable = TRUE
  /\ now = Epoch
  /\ last = [op |-> "none", id |-> NoArg, text |-> NoArg, arg |-> NoArg,
             pre |-> Absent, ret |-> Void, threw |-> FALSE, writes |-> 0]
  /\ again = FALSE

Record(call) ==
  /\ again' = (call.op = last.op /\ call.id = last.id)
  /\ last' = call

\* time passes
Tick ==
  /\ now + 1 \in Clock
  /\ now' = now + 1
  /\ UNCHANGED <<storage, readable, writable, last, again, aiVars, uiVars>>

ListEntries ==
  /\ Record(Call("list", NoArg, NoArg, NoArg, storage,
                 Outcome(storage, Returned("value", getPlants(storage, readable)),
                         FALSE, 0)))
  /\ UNCHANGED <<storage, readable, writable, now, aiVars, uiVars>>

SaveFrom(entries, max) ==
  \E e \in entries :
    LET out == setItem(storage, writable, savePlant(storage, readable, e)) IN
    /\ Len(storage.items) < max
    /\ storage' = out.storage
    /\ Record(Call("save", e.id, NoArg, e, storage, out))
    /\ UNCHANGED <<readable, writable, now, aiVars, uiVars>>

SaveEntry == SaveFrom(Entries, MaxPlants)

\* the journal with notes: fewer entries, each saved as the App saves it
SaveNoted == SaveFrom(NotedEntries, MaxNoted)

DeleteEntry ==
  \E id \in Ids :
    LET out == setItem(storage, writable, deletePlant(storage, readable, id))
    IN
    /\ storage' = out.storage
    /\ Record(Call("delete", id, NoArg, NoArg, storage, out))
    /\ UNCHANGED <<readable, writable, now, aiVars, uiVars>>

AddNoteUpTo(max) ==
  \E id \in Ids, text \in Texts :
    LET out == setItem(storage, writable,
                       addNoteToPlant(storage, readable, id, text, now))
    IN
    /\ NoteCount(storage) < max
    /\ storage' = out.storage
    /\ Record(Call("addNote", id, text, NoArg, storage, out))
    /\ UNCHANGED <<readable, writable, now, aiVars, uiVars>>

AddNote == AddNoteUpTo(MaxNotes)

AddFew == AddNoteUpTo(MaxFew)

\* the quota of localStorage is used up, or space is freed
QuotaChanges ==
  /\ writable' = ~writable
  /\ UNCHANGED <<storage, readable, now, last, again, aiVars, uiVars>>

ToggleFavorite ==
  \E id \in Ids :
    LET out == setItem(storage, writable,
                       toggleFavoritePlant(storage, readable, id))
    IN
    /\ storage' = out.storage
    /\ Record(Call("toggle", id, NoArg, NoArg, storage, out))
    /\ UNCHANGED <<readable, writable, now, aiVars, uiVars>>

\* ------------------------------------------------- reading a stored item
\* what the key can hold when the page loads: nothing, a text that is not
\* the JSON of an array, or the JSON of an array of entries
Collections == UNION {[1..k -> Entries] : k \in 0..MaxPlants}
StoredItems ==
  {Absent, EmptyText, Garbage, NullText, ObjectText}
    \cup {JSONstringify(c) : c \in Collections}

ReadInit ==
  /\ storage \in StoredItems
  /\ readable \in BOOLEAN
  /\ writable = TRUE
  /\ now = Epoch
  /\ last = [op |-> "none", id |-> NoArg, text |-> NoArg, arg |-> NoArg,
             pre |-> Absent, ret |-> Void, threw |-> FALSE, writes |-> 0]
  /\ again = FALSE

\* ------------------------------------------------------------ AI provider
\* PlantAnalysis (types.ts)
PlantAnalysisFields ==
  {"commonName", "scientificName", "description", "lightRequirement",
   "wateringRequirement", "temperatureRange", "toxicity", "difficulty",
   "funFacts"}

Undefined == "undefined"
Get(o, f) == IF f \in DOMAIN o THEN o[f] ELSE Undefined

\* objects a backend can answer with: any subset of the fields
Answers ==
  [commonName : {"Unknown", "unknown", "Rosa"},
   scientificName : {"Unknown", "Rosa canina"},
   description : {"Arbusto"}, lightRequirement : {"high"},
   wateringRequirement : {"medium"}, temperatureRange : {"18-24"},
   toxicity : {"safe"}, difficulty : {"easy"}, funFacts : {<<"a", "b">>}]

Restrict(o, D) == [f \in D |-> o[f]]

Objects == {Restrict(o, D) : o \in Answers, D \in SUBSET PlantAnalysisFields}

\* the text a backend answers with: empty, not JSON, the JSON null, or the
\* JSON of an object
Content(t, fields) == [t |-> t, fields |-> fields]
Contents ==
  {Content("empty", <<>>), Content("garbage", <<>>), Content("null", <<>>)}
    \cup {Content("object", o) : o \in Objects}

\* what comes back from a request: the transport fails, the backend refuses
\* (a status that is not ok), or it answers with a text
Response(kind, content) == [kind |-> kind, content |-> content]
Responses ==
  {Response("network", Content("empty", <<>>)),
   Response("http", Content("empty", <<>>))}
    \cup {Response("ok", c) : c \in Contents}

NoPlant == "No se pudo identificar una planta en esta imagen."

Resolved(value) == [status |-> "ok", value |-> value, error |-> ""]
Rejected(error) == [status |-> "error", value |-> <<>>, error |-> error]

\* identifyWithOpenAI with the sentinel test on both names at once (&&)
identifyWithOpenAI_both(key, resp) ==
  IF ~key THEN Rejected("OpenAI API Key not found")
  ELSE IF resp.kind = "network" THEN Rejected("fetch failed")
  ELSE IF resp.kind = "http" THEN Rejected("OpenAI Error")
  ELSE IF resp.content.t \in {"empty", "garbage"} THEN Rejected("SyntaxError")
  ELSE IF resp.content.t = "null" THEN Rejected("TypeError")
  ELSE
    LET content == resp.content.fields IN
    IF Get(content, "commonName") = "Unknown"
         /\ Get(content, "scientificName") = "Unknown"
    THEN Rejected(NoPlant)
    ELSE Resolved(content)

\* identifyWithOpenAI, from the response to its request on
identifyWithOpenAI(key, resp) ==
  IF ~key THEN Rejected("OpenAI API Key not found")
  ELSE IF resp.kind = "network" THEN Rejected("fetch failed")
  ELSE IF resp.kind = "http" THEN Rejected("OpenAI Error")   \* !response.ok
  ELSE IF resp.content.t \in {"empty", "garbage"} THEN Rejected("SyntaxError")
  ELSE IF resp.content.t = "null" THEN Rejected("TypeError") \* null.commonName
  ELSE
    LET content == resp.content.fields IN
    IF Get(content, "commonName") = "Unknown"
         \/ Get(content, "scientificName") = "Unknown"
    THEN Rejected(NoPlant)
    ELSE Resolved(content)                    \* content as PlantAnalysis

\* identifyWithGemini, from the response to its request on; what
\* generateContent throws is thrown again
identifyWithGemini(resp) ==
  IF resp.kind = "sdk" THEN Rejected("Gemini SDK error")
  ELSE IF resp.kind = "network" THEN Rejected("fetch failed")
  ELSE IF resp.kind = "http" THEN Rejected("Gemini Error")
  ELSE IF resp.content.t = "empty" THEN Rejected("No response from Gemini")
  ELSE IF resp.content.t = "garbage" THEN Rejected("SyntaxError")
  ELSE IF resp.content.t = "null" THEN Rejected("TypeError")
  ELSE
    LET data == resp.content.fields IN
    IF Get(data, "commonName") = "Unknown"
         \/ Get(data, "scientificName") = "Unknown"
    THEN Rejected(NoPlant)
    ELSE Resolved(data)

\* the backend identifyPlant calls, given the constant read at load (key) and
\* the environment at the call (e): if (OPENAI_API_KEY)
identifyPlant_env(key, e) == IF e THEN "openai" ELSE "gemini"

identifyPlant(key, e) == IF key THEN "openai" ELSE "gemini"

\* the backend generatePlantImage calls: if (OPENAI_API_KEY)
generatePlantImage_gemini(key, e) == "gemini"

generatePlantImage(key, e) == IF key THEN "openai" ELSE "gemini"

\* the requests a call on the OpenAI path has sent when it ends: fetch is
\* reached once the key check has passed
openAIRequests(key) == IF ~key THEN <<>> ELSE <<"openai">>

\* the requests a call on the Gemini path has sent when it ends:
\* geminiAi.models.generateContent is called without a check of the key
geminiRequests(resp) == IF resp.kind = "sdk" THEN <<>> ELSE <<"gemini">>

\* what generateContent can end with: without a key the client library
\* either rejects the call itself or sends a request the server refuses
GeminiCan(key, responses) ==
  IF key THEN responses
  ELSE {Response("sdk", Content("empty", <<>>)),
        Response("http", Content("empty", <<>>))}

Idle == [pc |-> "idle", backend |-> "none", prompt |-> <<>>]
Calling(pc, backend, text) == [pc |-> pc, backend |-> backend, prompt |-> text]
NoResponse == Response("none", Content("empty", <<>>))
Ended(op, backend, requests, text, response, result) ==
  [op |-> op, backend |-> backend, requests |-> requests, prompt |-> text,
   response |-> response, result |-> result]
NoCallEnded == Ended("none", "none", <<>>, <<>>, NoResponse, Rejected(""))

AiInit ==
  /\ OPENAI_API_KEY \in BOOLEAN
  /\ env = OPENAI_API_KEY
  /\ GEMINI_API_KEY = TRUE
  /\ aiCall = Idle
  /\ aiLast = NoCallEnded

\* the provider when no call is made
AiUnused ==
  /\ OPENAI_API_KEY = FALSE
  /\ env = FALSE
  /\ GEMINI_API_KEY = TRUE
  /\ aiCall = Idle
  /\ aiLast = NoCallEnded

\* identifyPlant(base64Image), up to the request it sends
IdentifyPlant ==
  /\ aiCall.pc = "idle"
  /\ aiCall' = Calling("identify", identifyPlant(OPENAI_API_KEY, env), <<>>)
  /\ aiLast' = NoCallEnded
  /\ UNCHANGED <<keys, storeVars, uiVars>>

\* the OpenAI request ends and identifyWithOpenAI runs to its end
OpenAIAnswersFrom(responses) ==
  \E resp \in responses :
    /\ aiCall = Calling("identify", "openai", <<>>)
    /\ aiLast' = Ended("identify", "openai", openAIRequests(OPENAI_API_KEY),
                      <<>>, resp, identifyWithOpenAI(OPENAI_API_KEY, resp))
    /\ aiCall' = Idle
    /\ UNCHANGED <<keys, storeVars, uiVars>>

\* the Gemini request ends and identifyWithGemini runs to its end
GeminiAnswersFrom(responses) ==
  \E resp \in GeminiCan(GEMINI_API_KEY, responses) :
    /\ aiCall = Calling("identify", "gemini", <<>>)
    /\ aiLast' = Ended("identify", "gemini", geminiRequests(resp), <<>>, resp,
                      identifyWithGemini(resp))
    /\ aiCall' = Idle
    /\ UNCHANGED <<keys, storeVars, uiVars>>

OpenAIAnswers == OpenAIAnswersFrom(Responses)

GeminiAnswers == GeminiAnswersFrom(Responses)

\* ------------------------------------------------------- image generation
\* the style text that the App and the OpenAI path both add to a prompt
Style == ". Photorealistic, high quality, botanical photography style"

\* body.prompt of the OpenAI request:
\* `${prompt}. Photorealistic, ..., isolated subject.`
openAIPrompt(text) == text \o <<Style, ", isolated subject.">>

\* contents.parts of the Gemini request: [{ text: prompt }]
geminiPrompt(text) == text

\* `data:${mime};base64,${data}`; an undefined value is written "undefined"
dataURI(mime, data) == <<"data:", mime, ";base64,", data>>

Payloads == {"AAAA", "BBBB"}
MimeTypes == {"image/png"}

\* the body of an OpenAI images response: data is missing, or a list of
\* items whose b64_json is a blob, the empty string, or missing
Item(b64) == [b64_json |-> b64]
Items == {Item(b) : b \in Payloads \cup {"", Undefined}}
ImageBody(t, data) == [t |-> t, data |-> data]
OpenAIImages ==
  {Response("network", ImageBody("none", <<>>)),
   Response("http", ImageBody("none", <<>>)),
   Response("ok", ImageBody("data", <<>>))}
    \cup {Response("ok", ImageBody("data", <<i>>)) : i \in Items}

\* the parts of a Gemini candidate: a text, or inline data whose mimeType
\* and data may each be missing
TextPart == [text |-> "una rosa"]
InlinePart(mime, data) == [inlineData |-> [mimeType |-> mime, data |-> data]]
Parts ==
  {TextPart}
    \cup {InlinePart(m, d) : m \in MimeTypes \cup {Undefined},
                             d \in Payloads \cup {"", Undefined}}
PartLists == UNION {[1..k -> Parts] : k \in 0..MaxParts}

\* a Gemini response: candidates is missing or empty, the first candidate
\* has no content, the content has no parts, or it has a list of parts
Candidates(t, parts) == [t |-> t, parts |-> parts]
GeminiImages ==
  {Response("network", Candidates("none", <<>>)),
   Response("http", Candidates("none", <<>>)),
   Response("ok", Candidates("noCandidates", <<>>)),
   Response("ok", Candidates("emptyCandidates", <<>>)),
   Response("ok", Candidates("noContent", <<>>)),
   Response("ok", Candidates("noParts", <<>>))}
    \cup {Response("ok", Candidates("parts", ps)) : ps \in PartLists}

NoImage == "No se pudo generar la imagen."

\* generateImageWithOpenAI, from the response to its request on
generateImageWithOpenAI(key, resp) ==
  IF ~key THEN Rejected("OpenAI API Key not found")
  ELSE IF resp.kind = "network" THEN Rejected("fetch failed")
  ELSE IF resp.kind = "http" THEN Rejected("OpenAI Error")   \* !response.ok
  ELSE IF resp.content.data = <<>> THEN Rejected("TypeError") \* data.data[0]
  ELSE
    LET b64 == resp.content.data[1].b64_json IN
    Resolved(dataURI("image/png", b64))

\* part.inlineData && part.inlineData.data
hasImage(part) ==
  /\ "inlineData" \in DOMAIN part
  /\ part.inlineData.data \notin {Undefined, ""}

\* generateImageWithGemini, from the response to its request on; what
\* generateContent throws is thrown again
\* generateImageWithGemini keeping the last part with inlineData.data
generateImageWithGemini_last(resp) ==
  IF resp.kind = "sdk" THEN Rejected("Gemini SDK error")
  ELSE IF resp.kind = "network" THEN Rejected("fetch failed")
  ELSE IF resp.kind = "http" THEN Rejected("Gemini Error")
  ELSE IF resp.content.t = "noCandidates" THEN Rejected(NoImage)
  ELSE IF resp.content.t \in {"emptyCandidates", "noContent"}
       THEN Rejected("TypeError")
  ELSE IF resp.content.t = "noParts" THEN Rejected(NoImage)
  ELSE
    LET parts == resp.content.parts
        found == {i \in 1..Len(parts) : hasImage(parts[i])}
    IN IF found = {} THEN Rejected(NoImage)
       ELSE
         LET part == parts[CHOOSE i \in found : \A j \in found : i >= j]
         IN Resolved(dataURI(part.inlineData.mimeType, part.inlineData.data))

generateImageWithGemini(resp) ==
  IF resp.kind = "sdk" THEN Rejected("Gemini SDK error")
  ELSE IF resp.kind = "network" THEN Rejected("fetch failed")
  ELSE IF resp.kind = "http" THEN Rejected("Gemini Error")
  ELSE IF resp.content.t = "noCandidates" THEN Rejected(NoImage)
  ELSE IF resp.content.t \in {"emptyCandidates", "noContent"}
       THEN Rejected("TypeError")     \* candidates[0].content.parts
  ELSE IF resp.content.t = "noParts" THEN Rejected(NoImage)
  ELSE
    LET parts == resp.content.parts
        found == {i \in 1..Len(parts) : hasImage(parts[i])}
    IN IF found = {} THEN Rejected(NoImage)
       ELSE
         LET part == parts[CHOOSE i \in found : \A j \in found : i <= j]
         IN Resolved(dataURI(part.inlineData.mimeType, part.inlineData.data))

\* --------------------------------------------------------------- the App
NoToast == [type |-> "none", text |-> ""]
Toast(type, text) == [type |-> type, text |-> text]

NoHandler ==
  [op |-> "none", text |-> NoArg, pre |-> Absent, prePlants |-> <<>>,
   preSelected |-> Null, called |-> FALSE]

\* the App before it is mounted
AppUnused ==
  /\ appPlants = <<>>
  /\ selectedPlant = Null
  /\ view = "HOME"
  /\ toast = NoToast
  /\ timers = 0
  /\ uiLast = NoHandler
  /\ generating = FALSE
  /\ prompt = <<>>
  /\ generatedImage = Null
  /\ analyzing = FALSE
  /\ capturedImage = Null
  /\ analysisResult = Null
  /\ reads = {}
  /\ identifying = {}

\* journals the App has saved: up to MaxNoted entries without notes
NotedCollections == UNION {[1..k -> NotedEntries] : k \in 0..MaxNoted}

\* the App mounted on a saved journal: useEffect has run setPlants(getPlants())
MountedInit ==
  /\ storage \in {JSONstringify(c) : c \in NotedCollections \ {<<>>}}
  /\ readable = TRUE
  /\ writable = TRUE
  /\ now = Epoch
  /\ last = [op |-> "none", id |-> NoArg, text |-> NoArg, arg |-> NoArg,
             pre |-> Absent, ret |-> Void, threw |-> FALSE, writes |-> 0]
  /\ again = FALSE
  /\ appPlants = getPlants(storage, readable).items
  /\ selectedPlant = Null
  /\ view = "HOME"
  /\ toast = NoToast
  /\ timers = 0
  /\ uiLast = NoHandler
  /\ generating = FALSE
  /\ prompt = <<>>
  /\ generatedImage = Null
  /\ analyzing = FALSE
  /\ capturedImage = Null
  /\ analysisResult = Null
  /\ reads = {}
  /\ identifying = {}

\* an App handler runs: its name, its text input, the state it starts from,
\* and whether it calls the store
Handler(op, text, called) ==
  [op |-> op, text |-> text, pre |-> storage, prePlants |-> appPlants,
   preSelected |-> selectedPlant, called |-> called]

\* prev => prev.map(p => p.id === id ? updated : p)
mapReplace(prev, id, updated) ==
  [i \in 1..Len(prev) |-> IF prev[i].id = id THEN updated ELSE prev[i]]

\* the cards of renderHome: plants.slice(0, 5) and plants.filter(p => p.isFavorite)
HomeCards(ps) ==
  {ps[i] : i \in 1..(IF Len(ps) < 5 THEN Len(ps) ELSE 5)}
    \cup {ps[i] : i \in {j \in 1..Len(ps) : ps[j].isFavorite}}

\* PlantCard onClick on the home view
SelectPlant ==
  \E p \in HomeCards(appPlants) :
    /\ view = "HOME"
    /\ selectedPlant' = Returned("plant", p)
    /\ view' = "DETAILS"
    /\ uiLast' = Handler("onClick", NoArg, FALSE)
    /\ UNCHANGED <<appPlants, toast, timers, genVars, camVars,
                 storeVars, aiVars>>

\* the back button of renderDetails
BackHome ==
  /\ view = "DETAILS"
  /\ view' = "HOME"
  /\ uiLast' = Handler("back", NoArg, FALSE)
  /\ UNCHANGED <<appPlants, selectedPlant, toast, timers, genVars, camVars,
                 storeVars,
               aiVars>>

\* handleAddNote with the guard on the text alone: !text
handleAddNoteReturns_noTrim(sel, text) == sel = Null \/ text = <<>>

\* handleAddNote: if (!selectedPlant || !text.trim()) return
handleAddNoteReturns(sel, text) == sel = Null \/ trim(text) = <<>>

\* the note form of renderDetails is submitted: handleAddNote(input.value)
HandleAddNoteUpTo(max) ==
  \E text \in Texts :
    /\ view = "DETAILS"
    /\ selectedPlant # Null
    /\ NoteCount(storage) < max
    /\ uiLast' = Handler("handleAddNote", text,
                         ~handleAddNoteReturns(selectedPlant, text))
    /\ IF handleAddNoteReturns(selectedPlant, text)
       THEN UNCHANGED <<appPlants, selectedPlant, toast, timers, storage,
                        last, again>>
       ELSE
         LET out == setItem(storage, writable,
                            addNoteToPlant(storage, readable,
                                           selectedPlant.v.id, text, now))
         IN /\ storage' = out.storage
            /\ Record(Call("addNote", selectedPlant.v.id, text, NoArg,
                           storage, out))
            /\ IF out.ret # Null /\ ~out.threw
               THEN /\ appPlants' =
                         mapReplace(appPlants, out.ret.v.id, out.ret.v)
                    /\ selectedPlant' = out.ret
                    /\ toast' = Toast("success", "Nota anadida")
                    /\ timers' = timers + 1
               ELSE UNCHANGED <<appPlants, selectedPlant, toast, timers>>
    /\ UNCHANGED <<view, genVars, camVars, readable, writable, now, aiVars>>

HandleAddNote == HandleAddNoteUpTo(MaxNotes)

HandleAddFew == HandleAddNoteUpTo(MaxFew)

\* a setTimeout callback of showToast runs: setToast(null)
ToastTimeout ==
  /\ timers > 0
  /\ timers' = timers - 1
  /\ toast' = NoToast
  /\ uiLast' = Handler("timeout", NoArg, FALSE)
  /\ UNCHANGED <<appPlants, selectedPlant, view, genVars, camVars, storeVars,
                 aiVars>>

\* ------------------------------------------------------- the generator view
\* the generator card of renderHome: setView('GENERATOR')
OpenStudio ==
  /\ view = "HOME"
  /\ view' = "GENERATOR"
  /\ uiLast' = Handler("studio", NoArg, FALSE)
  /\ UNCHANGED <<appPlants, selectedPlant, toast, timers, genVars, camVars,
                 storeVars,
                 aiVars>>

\* the back button of renderGenerator: setView('HOME')
CloseStudio ==
  /\ view = "GENERATOR"
  /\ view' = "HOME"
  /\ uiLast' = Handler("back", NoArg, FALSE)
  /\ UNCHANGED <<appPlants, selectedPlant, toast, timers, genVars, camVars,
                 storeVars,
                 aiVars>>

\* the textarea of renderGenerator changes: setPrompt(e.target.value)
SetPromptFrom(texts) ==
  \E text \in texts :
    /\ view = "GENERATOR"
    /\ ~generating
    /\ generatedImage = Null
    /\ prompt' = text
    /\ uiLast' = Handler("setPrompt", text, FALSE)
    /\ UNCHANGED <<appPlants, selectedPlant, view, toast, timers, generating,
                   generatedImage, camVars, storeVars, aiVars>>

SetPrompt == SetPromptFrom(Texts)

\* the same, when the user types one description
TypePrompt == SetPromptFrom({<<" ", "w">>})

\* handleGenerateImage: if (!prompt.trim()) return
handleGenerateImageReturns(text) == trim(text) = <<>>

\* the argument of generatePlantImage in handleGenerateImage
callerPrompt(text) == text \o <<" ", Style, ".">>

\* the button of renderGenerator, enabled unless generating || !prompt.trim():
\* handleGenerateImage up to its await, generatePlantImage up to its request
HandleGenerateImage ==
  /\ view = "GENERATOR"
  /\ ~generating
  /\ generatedImage = Null
  /\ ~handleGenerateImageReturns(prompt)
  /\ aiCall.pc = "idle"
  /\ timers < MaxToasts
  /\ generating' = TRUE
  /\ generatedImage' = Null
  /\ aiCall' = Calling("generate", generatePlantImage(OPENAI_API_KEY, env),
                       callerPrompt(prompt))
  /\ aiLast' = NoCallEnded
  /\ uiLast' = Handler("handleGenerateImage", prompt, TRUE)
  /\ UNCHANGED <<appPlants, selectedPlant, view, toast, timers, prompt,
                 camVars, keys, storeVars>>

\* generatePlantImage ends and handleGenerateImage goes on after its await
GenerateEnds(backend, requests, sent, resp, result) ==
  /\ aiCall.pc = "generate"
  /\ aiCall.backend = backend
  /\ aiLast' = Ended("generate", backend, requests, sent, resp, result)
  /\ aiCall' = Idle
  /\ IF result.status = "ok"
     THEN /\ generatedImage' = Returned("image", result.value)
          /\ UNCHANGED <<toast, timers>>
     ELSE /\ toast' = Toast("error",
                            "No se pudo generar la imagen. Intenta de nuevo.")
          /\ timers' = timers + 1
          /\ UNCHANGED generatedImage
  /\ generating' = FALSE
  /\ uiLast' = Handler("handleGenerateImage", prompt, TRUE)
  /\ UNCHANGED <<appPlants, selectedPlant, view, prompt, camVars, keys,
                 storeVars>>

\* the OpenAI request ends and generateImageWithOpenAI runs to its end
OpenAIDraws ==
  \E resp \in OpenAIImages :
    GenerateEnds("openai", openAIRequests(OPENAI_API_KEY),
                 openAIPrompt(aiCall.prompt), resp,
                 generateImageWithOpenAI(OPENAI_API_KEY, resp))

\* the Gemini request ends and generateImageWithGemini runs to its end
GeminiDrawsFrom(responses) ==
  \E resp \in GeminiCan(GEMINI_API_KEY, responses) :
    GenerateEnds("gemini", geminiRequests(resp), geminiPrompt(aiCall.prompt),
                 resp, generateImageWithGemini(resp))

GeminiDraws == GeminiDrawsFrom(GeminiImages)

\* the same, when Gemini either does not answer or draws one image
FewImages ==
  {Response("network", Candidates("none", <<>>)),
   Response("ok", Candidates("parts", <<InlinePart("image/png", "AAAA")>>))}

GeminiDrawsFew == GeminiDrawsFrom(FewImages)

\* the second button under a generated image: setGeneratedImage(null)
DiscardImage ==
  /\ view = "GENERATOR"
  /\ generatedImage # Null
  /\ generatedImage' = Null
  /\ uiLast' = Handler("discard", NoArg, FALSE)
  /\ UNCHANGED <<appPlants, selectedPlant, view, toast, timers, generating,
                 prompt, camVars, storeVars, aiVars>>

\* ---------------------------------------------------------- the camera view
\* reader.result of readAsDataURL: the data URL of the chosen file; its
\* payload stands for the picture, named after the plant in it
Images ==
  {dataURI("image/jpeg", "Rosa"), dataURI("image/jpeg", "Ficus")}

\* what a backend answers about an image: nothing, that it shows no plant,
\* or the plant it shows
plantIn(image) == image[4]
CameraResponses(image) ==
  {Response("network", Content("empty", <<>>)),
   Response("ok", Content("object", [commonName |-> "Unknown",
                                     scientificName |-> "Unknown"])),
   Response("ok", Content("object", [commonName |-> plantIn(image),
                                     scientificName |-> "Plantae"]))}

\* renderCamera shows the result screen, the analyzing screen, or the camera
resultShown == ~analyzing /\ analysisResult # Null /\ capturedImage # Null
cameraShown == ~analyzing /\ ~resultShown

\* the scan card of renderHome: setView('CAMERA')
OpenCamera ==
  /\ view = "HOME"
  /\ view' = "CAMERA"
  /\ uiLast' = Handler("camera", NoArg, FALSE)
  /\ UNCHANGED <<appPlants, selectedPlant, toast, timers, genVars, camVars,
                 storeVars, aiVars>>

\* the close button of the camera: setView('HOME')
CloseCamera ==
  /\ view = "CAMERA"
  /\ cameraShown
  /\ view' = "HOME"
  /\ uiLast' = Handler("back", NoArg, FALSE)
  /\ UNCHANGED <<appPlants, selectedPlant, toast, timers, genVars, camVars,
                 storeVars, aiVars>>

\* the close button of the result screen
CloseResult ==
  /\ view = "CAMERA"
  /\ resultShown
  /\ capturedImage' = Null
  /\ analysisResult' = Null
  /\ view' = "HOME"
  /\ uiLast' = Handler("close", NoArg, FALSE)
  /\ UNCHANGED <<appPlants, selectedPlant, toast, timers, genVars, analyzing,
                 reads, identifying, storeVars, aiVars>>

\* a file is chosen in the camera: handleImageInput, processImageFile
HandleImageInputFrom(images) ==
  \E image \in images \ reads :
    /\ view = "CAMERA"
    /\ cameraShown
    /\ timers + Cardinality(reads) + Cardinality(identifying) < MaxToasts
    /\ reads' = reads \cup {image}
    /\ uiLast' = Handler("handleImageInput", NoArg, FALSE)
    /\ UNCHANGED <<appPlants, selectedPlant, view, toast, timers, genVars,
                   analyzing, capturedImage, analysisResult, identifying,
                   storeVars, aiVars>>

HandleImageInput == HandleImageInputFrom(Images)

\* the same, when there is one image to choose
HandleOneImage == HandleImageInputFrom({dataURI("image/jpeg", "Rosa")})

\* reader.onloadend: setCapturedImage(base64), then runIdentification up to
\* the request of identifyPlant
FileLoaded ==
  \E image \in reads :
    /\ reads' = reads \ {image}
    /\ capturedImage' = Returned("image", image)
    /\ analyzing' = TRUE
    /\ identifying' =
         identifying
           \cup {[image |-> image,
                  backend |-> identifyPlant(OPENAI_API_KEY, env)]}
    /\ uiLast' = Handler("onloadend", NoArg, FALSE)
    /\ UNCHANGED <<appPlants, selectedPlant, view, toast, timers, genVars,
                   analysisResult, storeVars, aiVars>>

\* the first button under a generated image: analyzeGeneratedImage, then
\* runIdentification up to the request of identifyPlant
AnalyzeGeneratedImage ==
  /\ view = "GENERATOR"
  /\ generatedImage # Null
  /\ timers + Cardinality(reads) + Cardinality(identifying) < MaxToasts
  /\ capturedImage' = generatedImage
  /\ generatedImage' = Null
  /\ prompt' = <<>>
  /\ view' = "CAMERA"
  /\ analyzing' = TRUE
  /\ identifying' =
       identifying
         \cup {[image |-> generatedImage.v,
                backend |-> identifyPlant(OPENAI_API_KEY, env)]}
  /\ uiLast' = Handler("analyzeGeneratedImage", NoArg, FALSE)
  /\ UNCHANGED <<appPlants, selectedPlant, toast, timers, generating,
                 analysisResult, reads, storeVars, aiVars>>

\* runIdentification whose catch leaves the captured image in place
runIdentificationSettles_keepsImage(result, captured, analysis) ==
  IF result.status = "ok"
  THEN [analysisResult |-> Returned("analysis", result.value),
        capturedImage |-> captured, toast |-> NoToast]
  ELSE [analysisResult |-> analysis, capturedImage |-> captured,
        toast |-> Toast("error", IF result.error = ""
                                 THEN "Error identificando la planta."
                                 ELSE result.error)]

\* the then and catch callbacks of runIdentification: the App state they set
\* and the toast they show
runIdentificationSettles(result, captured, analysis) ==
  IF result.status = "ok"
  THEN [analysisResult |-> Returned("analysis", result.value),
        capturedImage |-> captured, toast |-> NoToast]
  ELSE [analysisResult |-> analysis, capturedImage |-> Null,
        toast |-> Toast("error", IF result.error = ""
                                 THEN "Error identificando la planta."
                                 ELSE result.error)]

\* an identifyPlant call of runIdentification ends: then or catch, finally
IdentifyEnds ==
  \E call \in identifying :
    \E resp \in IF call.backend = "openai" THEN CameraResponses(call.image)
                ELSE GeminiCan(GEMINI_API_KEY, CameraResponses(call.image)) :
      LET result == IF call.backend = "openai"
                    THEN identifyWithOpenAI(OPENAI_API_KEY, resp)
                    ELSE identifyWithGemini(resp)
          set == runIdentificationSettles(result, capturedImage,
                                          analysisResult)
      IN /\ identifying' = identifying \ {call}
         /\ analysisResult' = set.analysisResult
         /\ capturedImage' = set.capturedImage
         /\ analyzing' = FALSE
         /\ IF set.toast = NoToast THEN UNCHANGED <<toast, timers>>
            ELSE toast' = set.toast /\ timers' = timers + 1
         /\ uiLast' = Handler(IF result.status = "ok" THEN "then" ELSE "catch",
                              <<result.error>>, FALSE)
         /\ UNCHANGED <<appPlants, selectedPlant, view, genVars, reads,
                        storeVars, aiVars>>

\* newPlant of saveCurrentPlant at time t
newPlant(analysis, image, t) ==
  [id |-> toString(t), image |-> image, dateAdded |-> toISOString(t),
   isFavorite |-> FALSE, notes |-> <<>>] @@ analysis

\* the save button of the result screen: saveCurrentPlant
SaveCurrentPlant ==
  /\ view = "CAMERA"
  /\ resultShown
  /\ Len(getPlants(storage, readable).items) < MaxNoted
  /\ timers < MaxToasts
  /\ LET plant == newPlant(analysisResult.v, capturedImage.v, now)
         out == setItem(storage, writable, savePlant(storage, readable, plant))
     IN /\ storage' = out.storage
        /\ Record(Call("save", plant.id, NoArg, plant, storage, out))
        /\ uiLast' = Handler("saveCurrentPlant", NoArg, TRUE)
        /\ IF out.threw
           THEN UNCHANGED <<appPlants, selectedPlant, view, toast, timers,
                            capturedImage, analysisResult>>
           ELSE /\ appPlants' = <<plant>> \o appPlants
                /\ toast' = Toast("success", "Planta guardada en tu diario!")
                /\ timers' = timers + 1
                /\ capturedImage' = Null
                /\ analysisResult' = Null
                /\ selectedPlant' = Returned("plant", plant)
                /\ view' = "DETAILS"
  /\ UNCHANGED <<genVars, analyzing, reads, identifying, readable, writable,
                 now, aiVars>>

\* the heart button of renderDetails: handleToggleFavorite(selectedPlant.id)
HandleToggleFavorite ==
  /\ view = "DETAILS"
  /\ selectedPlant # Null
  /\ LET plantId == selectedPlant.v.id
         out == setItem(storage, writable,
                        toggleFavoritePlant(storage, readable, plantId))
     IN /\ storage' = out.storage
        /\ Record(Call("toggle", plantId, NoArg, NoArg, storage, out))
        /\ uiLast' = Handler("handleToggleFavorite", NoArg, TRUE)
        /\ IF out.ret # Null /\ ~out.threw
           THEN /\ appPlants' = mapReplace(appPlants, plantId, out.ret.v)
                /\ selectedPlant' = out.ret
           ELSE UNCHANGED <<appPlants, selectedPlant>>
  /\ UNCHANGED <<view, toast, timers, genVars, camVars, readable, writable,
                 now, aiVars>>

\* the delete button of renderDetails, confirmed
DeleteSelected ==
  /\ view = "DETAILS"
  /\ selectedPlant # Null
  /\ timers < MaxToasts
  /\ LET id == selectedPlant.v.id
         out == setItem(storage, writable, deletePlant(storage, readable, id))
     IN /\ storage' = out.storage
        /\ Record(Call("delete", id, NoArg, NoArg, storage, out))
        /\ uiLast' = Handler("delete", NoArg, TRUE)
        /\ IF out.threw
           THEN UNCHANGED <<appPlants, view, toast, timers>>
           ELSE /\ appPlants' = filterNotId(appPlants, id)
                /\ view' = "HOME"
                /\ toast' = Toast("info", "Planta eliminada")
                /\ timers' = timers + 1
  /\ UNCHANGED <<selectedPlant, genVars, camVars, readable, writable, now,
                 aiVars>>

\* process.env.API_KEY_OPENAI is set or unset
SetEnv ==
  /\ env' = ~env
  /\ UNCHANGED <<OPENAI_API_KEY, GEMINI_API_KEY, aiCall, aiLast, storeVars,
                 uiVars>>

\* the page is loaded again: ai.ts reads the environment, App is mounted
Reload ==
  /\ OPENAI_API_KEY' = env
  /\ aiCall' = Idle
  /\ aiLast' = NoCallEnded
  /\ appPlants' = getPlants(storage, readable).items
  /\ selectedPlant' = Null
  /\ view' = "HOME"
  /\ toast' = NoToast
  /\ timers' = 0
  /\ uiLast' = NoHandler
  /\ generating' = FALSE
  /\ prompt' = <<>>
  /\ generatedImage' = Null
  /\ analyzing' = FALSE
  /\ capturedImage' = Null
  /\ analysisResult' = Null
  /\ reads' = {}
  /\ identifying' = {}
  /\ UNCHANGED <<env, GEMINI_API_KEY, storeVars>>

vars == <<storeVars, aiVars, uiVars>>

Init == StoreInit /\ AiUnused /\ AppUnused

Next ==
  \/ ListEntries
  \/ SaveEntry
  \/ DeleteEntry
  \/ ToggleFavorite

Spec == Init /\ [][Next]_vars

NotesNext ==
  \/ Tick
  \/ SaveNoted
  \/ AddNote

SpecNotes == Init /\ [][NotesNext]_vars

\* the whole store, with few notes
AllNext ==
  \/ Tick
  \/ ListEntries
  \/ SaveNoted
  \/ DeleteEntry
  \/ AddFew
  \/ ToggleFavorite

SpecAll == Init /\ [][AllNext]_vars

\* the store functions that write, on an item that may not be writable
QuotaNext ==
  \/ QuotaChanges
  \/ SaveNoted
  \/ DeleteEntry
  \/ AddFew
  \/ ToggleFavorite

SpecQuota == Init /\ [][QuotaNext]_vars

\* the camera of the App, from its first mount to the saved entry
CameraNext ==
  \/ OpenCamera
  \/ CloseCamera
  \/ CloseResult
  \/ HandleImageInput
  \/ FileLoaded
  \/ IdentifyEnds
  \/ SaveCurrentPlant
  \/ BackHome
  \/ ToastTimeout

SpecCamera == Init /\ [][CameraNext]_vars

\* the camera and the generator of the App: files read, images generated and
\* identifications in flight at the same time
ScanNext ==
  \/ OpenCamera
  \/ CloseCamera
  \/ CloseResult
  \/ HandleOneImage
  \/ FileLoaded
  \/ IdentifyEnds
  \/ SaveCurrentPlant
  \/ ToastTimeout
  \/ OpenStudio
  \/ CloseStudio
  \/ TypePrompt
  \/ HandleGenerateImage
  \/ GeminiDrawsFew
  \/ AnalyzeGeneratedImage

SpecScan == Init /\ [][ScanNext]_vars

\* the App from its first mount: the camera, the journal and the details
AppNext ==
  \/ Tick
  \/ OpenCamera
  \/ CloseCamera
  \/ CloseResult
  \/ HandleOneImage
  \/ FileLoaded
  \/ IdentifyEnds
  \/ SaveCurrentPlant
  \/ SelectPlant
  \/ BackHome
  \/ HandleToggleFavorite
  \/ HandleAddFew
  \/ DeleteSelected
  \/ ToastTimeout

SpecApp == Init /\ [][AppNext]_vars

\* the note form of the App, on a saved journal
NoteUiNext ==
  \/ Tick
  \/ SelectPlant
  \/ BackHome
  \/ HandleAddNote
  \/ ToastTimeout

NoteUiInit == MountedInit /\ AiUnused

SpecNoteUI == NoteUiInit /\ [][NoteUiNext]_vars

\* getPlants on whatever the key holds
ReadNext == ListEntries

ReadSpecInit == ReadInit /\ AiUnused /\ AppUnused

SpecRead == ReadSpecInit /\ [][ReadNext]_vars

\* both operations of the provider, on either backend and with either key
\* missing, while the environment changes
FewResponses ==
  {Response("network", Content("empty", <<>>)),
   Response("ok", Content("object", [commonName |-> "Unknown"])),
   Response("ok", Content("object", [commonName |-> "Rosa",
                                     scientificName |-> "Rosa canina"]))}

OpenAIAnswersFew == OpenAIAnswersFrom(FewResponses)

GeminiAnswersFew == GeminiAnswersFrom(FewResponses)

ProviderInit ==
  /\ StoreInit
  /\ AppUnused
  /\ env \in BOOLEAN
  /\ OPENAI_API_KEY = env
  /\ GEMINI_API_KEY \in BOOLEAN
  /\ aiCall = Idle
  /\ aiLast = NoCallEnded

ProviderNext ==
  \/ IdentifyPlant
  \/ OpenAIAnswersFew
  \/ GeminiAnswersFew
  \/ OpenStudio
  \/ CloseStudio
  \/ SetPrompt
  \/ HandleGenerateImage
  \/ OpenAIDraws
  \/ GeminiDraws
  \/ DiscardImage
  \/ ToastTimeout
  \/ SetEnv
  \/ Reload

SpecProvider == ProviderInit /\ [][ProviderNext]_vars

\* identifyPlant on either backend, for every response
AiNext ==
  \/ IdentifyPlant
  \/ OpenAIAnswers
  \/ GeminiAnswers

AiSpecInit == StoreInit /\ AiInit /\ AppUnused

SpecAI == AiSpecInit /\ [][AiNext]_vars

\* ------------------------------------------------------------------ claims
\* what listEntries() returns in the current state, and returned before the
\* last call
listed == getPlants(storage, readable).items
listedBefore == getPlants(last.pre, readable).items
CountId(plants, id) == Cardinality({i \in 1..Len(plants) : plants[i].id = id})

\* C1: after saveEntry(E), listEntries() returns E first, followed by the
\* entries listed before the call, in their previous order.
C1_SaveThenList ==
  last.op = "save" =>
    /\ ~last.threw
    /\ getPlants(storage, readable) = JSArray(<<last.arg>> \o listedBefore)

\* C1 witness: an entry saved in front of two different entries, one of
\* which has the id of the saved entry
C1_Witness ==
  /\ last.op = "save"
  /\ Len(listedBefore) = 2
  /\ listedBefore[1] # listedBefore[2]
  /\ listedBefore[2].id = last.arg.id
  /\ listedBefore[1].id # last.arg.id
  /\ listed[1] = last.arg

\* C2: two toggleFavorite(id) calls in a row leave the persisted collection,
\* hence every entry's isFavorite, as it was before the first of them.
C2_ToggleTwice ==
  [][(last.op = "toggle" /\ last'.op = "toggle" /\ last'.id = last.id)
       => storage' = last.pre]_vars

\* C2 witness: the second of two toggles of an id that two entries share
C2_Witness ==
  /\ last.op = "toggle"
  /\ again
  /\ last.ret.t = "plant"
  /\ CountId(listed, last.id) = 2
  /\ storage = JSONstringify(listed)
  /\ listed # listedBefore

\* C3: after deleteEntry(id) no listed entry has that id; deleteEntry of an
\* absent id does not throw and leaves the listed sequence unchanged.
C3_Delete ==
  last.op = "delete" =>
    /\ ~last.threw
    /\ \A i \in 1..Len(listed) : listed[i].id # last.id
    /\ (findIndex(listedBefore, last.id) = -1 => listed = listedBefore)

\* C3 witness: a delete of an id that two of three entries had
C3_Witness ==
  /\ last.op = "delete"
  /\ CountId(listedBefore, last.id) = 2
  /\ Len(listedBefore) = 3
  /\ Len(listed) = 1

\* C6: toggleFavorite(id) of a present id flips isFavorite of the matching
\* entry, persists it with one write, and returns the updated entry: the
\* entry that listEntries() then holds for that id.
C6_ToggleReturns ==
  (last.op = "toggle" /\ findIndex(listedBefore, last.id) # -1) =>
    LET i == findIndex(listedBefore, last.id) IN
    /\ ~last.threw
    /\ last.writes = 1
    /\ last.ret.t = "plant"
    /\ last.ret.v.isFavorite = ~listedBefore[i].isFavorite
    /\ Len(listed) = Len(listedBefore)
    /\ findIndex(listed, last.id) = i
    /\ listed[i] = last.ret.v

\* C6 witness: the first listed entry, not a favourite, is toggled
C6_Witness ==
  /\ last.op = "toggle"
  /\ Len(listedBefore) >= 1
  /\ listedBefore[1].id = last.id
  /\ listedBefore[1].isFavorite = FALSE
  /\ last.ret.t = "plant"
  /\ last.ret.v.isFavorite = TRUE
  /\ listed[1].isFavorite = TRUE

\* C5: addNote(id, text) of a present id with non-empty text adds exactly one
\* note to that entry, at index 0 with the given text, in front of the notes
\* stored before in their previous order; every entry's notes are ordered
\* newest first.
NewestFirst(notes) ==
  \A i, j \in 1..Len(notes) : i < j => notes[i].date.iso >= notes[j].date.iso

C5_AddNotePrepends ==
  /\ (last.op = "addNote" /\ last.text # <<>>
        /\ findIndex(listedBefore, last.id) # -1) =>
       LET i == findIndex(listedBefore, last.id)
           old == notesOf(listedBefore[i])
           new == notesOf(listed[i])
       IN /\ ~last.threw
          /\ Len(listed) = Len(listedBefore)
          /\ Len(new) = Len(old) + 1
          /\ new[1].text = last.text
          /\ SubSeq(new, 2, Len(new)) = old
  /\ \A i \in 1..Len(listed) : NewestFirst(notesOf(listed[i]))

\* C5 witness: a third note, written later than the two different notes it
\* is put in front of
C5_Witness ==
  /\ last.op = "addNote"
  /\ last.ret.t = "plant"
  /\ Len(last.ret.v.notes) = 3
  /\ last.ret.v.notes[2].text # last.ret.v.notes[3].text
  /\ last.ret.v.notes[1].date.iso > last.ret.v.notes[2].date.iso
  /\ last.ret.v.notes[1].text = <<" ", "w">>
  /\ listed[findIndex(listed, last.id)] = last.ret.v

\* C7: toggleFavorite(id) and addNote(id, text) of an id no stored entry has
\* return null without throwing, write nothing, and leave the persisted
\* collection unchanged.
C7_NotFound ==
  (last.op \in {"toggle", "addNote"} /\ findIndex(listedBefore, last.id) = -1) =>
    /\ last.ret = Null
    /\ ~last.threw
    /\ last.writes = 0
    /\ storage = last.pre

\* C7 witness: a note for an id that the one stored entry, a favourite by an
\* earlier toggle, does not have
C7_Witness ==
  /\ last.op = "addNote"
  /\ last.ret = Null
  /\ Len(listed) = 1
  /\ listed[1].isFavorite
  /\ listed[1].id # last.id

\* C8: listEntries() returns an empty sequence and raises nothing whenever
\* the key is absent, unreadable, or holds anything but the JSON of an array.
C8_ListRecovers ==
  last.op = "list" =>
    /\ ~last.threw
    /\ (~readable \/ last.pre.kind # "array") => last.ret.v = JSArray(<<>>)

\* C9: a response whose commonName or scientificName is "Unknown" makes
\* identify fail with the no-plant error on either backend, and no value
\* identify returns has "Unknown" in either field.
HasSentinel(resp) ==
  /\ resp.kind = "ok"
  /\ resp.content.t = "object"
  /\ \/ Get(resp.content.fields, "commonName") = "Unknown"
     \/ Get(resp.content.fields, "scientificName") = "Unknown"

C9_SentinelRejected ==
  /\ HasSentinel(aiLast.response) => aiLast.result = Rejected(NoPlant)
  /\ aiLast.result.status = "ok" =>
       /\ Get(aiLast.result.value, "commonName") # "Unknown"
       /\ Get(aiLast.result.value, "scientificName") # "Unknown"

\* C9 witness: OpenAI answers a complete object that is a plant by its
\* commonName and "Unknown" by its scientificName, and identify fails
C9_Witness ==
  /\ aiLast.backend = "openai"
  /\ aiLast.response.kind = "ok"
  /\ aiLast.response.content.t = "object"
  /\ DOMAIN aiLast.response.content.fields = PlantAnalysisFields
  /\ aiLast.response.content.fields.commonName = "Rosa"
  /\ aiLast.response.content.fields.scientificName = "Unknown"
  /\ aiLast.result = Rejected(NoPlant)

\* C10: whatever the backend answers, identify returns a PlantAnalysis with
\* all nine fields or fails.
C10_FullyPopulated ==
  aiLast.result.status = "ok" =>
    DOMAIN aiLast.result.value = PlantAnalysisFields

\* C4 as stated: addNote(id, text) with an empty or whitespace-only text is
\* rejected by the store itself: for every id, the call leaves the persisted
\* collection unchanged.
C4_StoreRejectsBlank ==
  \A id \in Ids, text \in Texts :
    trim(text) = <<>> =>
      addNoteToPlant(storage, readable, id, text, now).storage = storage

\* C4 amended: handleAddNote with an empty or whitespace-only text returns
\* before it calls the store: the persisted collection, the cached entries
\* and the selected entry are unchanged, and no note the App adds has an
\* empty or whitespace-only text.
AllNotes(ps) == UNION {{n : n \in Range(notesOf(ps[i]))} : i \in 1..Len(ps)}

C4_AppRejectsBlank ==
  /\ (uiLast.op = "handleAddNote" /\ trim(uiLast.text) = <<>>) =>
       /\ ~uiLast.called
       /\ storage = uiLast.pre
       /\ appPlants = uiLast.prePlants
       /\ selectedPlant = uiLast.preSelected
  /\ \A n \in AllNotes(listed) \cup AllNotes(appPlants) : trim(n.text) # <<>>

\* C4 witness: a whitespace-only text is submitted for an entry that has a
\* note already
C4_Witness ==
  /\ uiLast.op = "handleAddNote"
  /\ uiLast.text = <<" ", " ">>
  /\ view = "DETAILS"
  /\ selectedPlant # Null
  /\ Len(selectedPlant.v.notes) = 1
  /\ storage = uiLast.pre

\* the image payload of a generation response, if it has one
payloadOf(backend, resp) ==
  IF resp.kind # "ok" THEN Undefined
  ELSE IF backend = "openai"
       THEN IF resp.content.data = <<>> \/ resp.content.data[1].b64_json = ""
            THEN Undefined
            ELSE resp.content.data[1].b64_json
  ELSE IF resp.content.t # "parts" THEN Undefined
  ELSE LET parts == resp.content.parts
           found == {i \in 1..Len(parts) : hasImage(parts[i])}
       IN IF found = {} THEN Undefined
          ELSE parts[CHOOSE i \in found : \A j \in found : i <= j].inlineData.data

\* C11: when the backend answers a generate request without an image
\* payload, generate fails with the error "generation produced no image" on
\* either backend, and returns no value.
C11_NoImageFails ==
  (aiLast.op = "generate" /\ aiLast.response.kind = "ok"
     /\ payloadOf(aiLast.backend, aiLast.response) = Undefined) =>
    aiLast.result = Rejected(NoImage)

\* C12: every value generate returns is data:<mime>;base64, with an actual
\* mime type, followed by the image payload of the response.
C12_ValidDataURI ==
  (aiLast.op = "generate" /\ aiLast.result.status = "ok") =>
    LET uri == aiLast.result.value IN
    /\ uri[1] = "data:"
    /\ uri[2] \in {"image/png", "image/jpeg", "image/webp"}
    /\ uri[3] = ";base64,"
    /\ uri[4] # Undefined
    /\ uri[4] = payloadOf(aiLast.backend, aiLast.response)

\* C13 as stated: a call is dispatched to the backend that matches the
\* environment at the time of the call.
C13_PerCall ==
  [][(aiCall.pc = "idle" /\ aiCall'.pc # "idle") =>
       aiCall'.backend = (IF env THEN "openai" ELSE "gemini")]_vars

\* C13 amended: a call is dispatched to the backend that matches the
\* credential as it was read when the module was loaded, whatever the
\* environment holds at the call; the credential read changes only when the
\* page is loaded again, and then to what the environment holds.
C13_AtLoad ==
  [][/\ (aiCall.pc = "idle" /\ aiCall'.pc # "idle") =>
          aiCall'.backend = (IF OPENAI_API_KEY THEN "openai" ELSE "gemini")
     /\ OPENAI_API_KEY' # OPENAI_API_KEY =>
          (OPENAI_API_KEY' = env /\ aiCall' = Idle /\ uiLast' = NoHandler)]_vars

\* C13 witness: a generation is in flight on Gemini, which the module chose
\* at load, while the environment holds an OpenAI key
C13_Witness ==
  /\ aiCall.pc = "generate"
  /\ aiCall.backend = "gemini"
  /\ env
  /\ ~OPENAI_API_KEY
  /\ generating

\* C14: with the OpenAI key present identify and generate are dispatched to
\* OpenAI, without it to Gemini; every request of a call goes to the backend
\* the call was dispatched to, and exactly one request is sent when that
\* backend has its credential.
Selected == IF OPENAI_API_KEY THEN "openai" ELSE "gemini"

C14_ProviderSelection ==
  /\ aiCall.pc # "idle" => aiCall.backend = Selected
  /\ aiLast.op # "none" =>
       /\ aiLast.backend = Selected
       /\ \A i \in 1..Len(aiLast.requests) : aiLast.requests[i] = Selected
       /\ Len(aiLast.requests) <= 1
       /\ (Selected = "openai" \/ GEMINI_API_KEY) => Len(aiLast.requests) = 1

\* C14 witness: a generation that OpenAI answered with an image, after its
\* one request
C14_Witness ==
  /\ aiLast.op = "generate"
  /\ OPENAI_API_KEY
  /\ aiLast.backend = "openai"
  /\ aiLast.requests = <<"openai">>
  /\ aiLast.result.status = "ok"
  /\ generatedImage = Returned("image", aiLast.result.value)

\* C15: the prompt a generation sends to the backend is the text of the
\* textarea followed by the style suffix of the provider, and holds the style
\* text once.
occurrences(text, chunk) ==
  Cardinality({i \in 1..Len(text) : text[i] = chunk})

C15_SuffixOnce ==
  (uiLast.op = "handleGenerateImage" /\ aiLast.op = "generate"
     /\ aiLast.requests # <<>>) =>
    /\ aiLast.prompt = uiLast.text \o <<Style, ", isolated subject.">>
    /\ occurrences(aiLast.prompt, Style) = 1

\* C16: a call whose backend has no credential fails without a request to
\* any backend, on Gemini as on OpenAI.
C16_ConfigError ==
  (aiLast.op # "none"
     /\ \/ aiLast.backend = "openai" /\ ~OPENAI_API_KEY
        \/ aiLast.backend = "gemini" /\ ~GEMINI_API_KEY) =>
    /\ aiLast.result.status = "error"
    /\ aiLast.requests = <<>>

\* C17: when setItem fails in saveEntry, deleteEntry, toggleFavorite or
\* addNote, the exception reaches the caller of the store function, setItem
\* was called once, and the persisted collection is as it was.
C17_WriteFails ==
  [][(~writable /\ last' # last) =>
       LET attempted ==
             \/ last'.op \in {"save", "delete"}
             \/ /\ last'.op \in {"toggle", "addNote"}
                /\ findIndex(listed, last'.id) # -1
       IN attempted =>
            /\ last'.threw
            /\ last'.ret = Void
            /\ last'.writes = 1
            /\ storage' = storage]_vars

\* C17 witness: a note for a stored entry could not be written
C17_Witness ==
  /\ ~writable
  /\ last.op = "addNote"
  /\ last.threw
  /\ Len(listed) = 2
  /\ listed[2].id = last.id
  /\ listed[1].id # last.id
  /\ listed[1].isFavorite
  /\ storage = last.pre

\* C18: when an identification started from the App fails, also because the
\* backend answers "Unknown", its message is shown, the captured image is
\* cleared, analyzing is false again, and neither the persisted collection
\* nor the cached entries change; the persisted collection changes in
\* saveCurrentPlant only.
C18_IdentifyFails ==
  /\ uiLast.op = "catch" =>
       /\ toast = Toast("error", uiLast.text[1])
       /\ timers > 0
       /\ capturedImage = Null
       /\ ~analyzing
       /\ storage = uiLast.pre
       /\ appPlants = uiLast.prePlants
  /\ storage # uiLast.pre => uiLast.op = "saveCurrentPlant"

\* C18 witness: the backend answers "Unknown" for the second image, after
\* the first has been saved
C18_Witness ==
  /\ uiLast.op = "catch"
  /\ uiLast.text = <<NoPlant>>
  /\ toast = Toast("error", NoPlant)
  /\ Len(listed) = 1
  /\ capturedImage = Null
  /\ view = "CAMERA"

\* C19: after every handler of the App that changes the journal, and after
\* any sequence of them, the cached entries are the sequence listEntries()
\* returns.
C19_CacheMatchesStore == appPlants = listed

\* C20: the entries saved through the App have pairwise distinct ids,
\* whether or not the clock advances between two saves.
C20_UniqueIds ==
  \A i, j \in 1..Len(listed) : i # j => listed[i].id # listed[j].id

\* C23: in every interleaving of file reads, generations and
\* identifications, the result screen shows an image with the analysis
\* identify returned for that image, and every saved entry holds an image
\* with the analysis of that image.
C23_ImageMatchesAnalysis ==
  /\ resultShown => analysisResult.v.commonName = plantIn(capturedImage.v)
  /\ \A i \in 1..Len(listed) : listed[i].commonName = plantIn(listed[i].image)

\* C21: after any sequence of addNote calls, with a clock that need not
\* advance between two calls, the notes of each entry have pairwise distinct
\* ids.
C21_FreshNoteIds ==
  \A p \in 1..Len(listed) :
    \A i, j \in 1..Len(notesOf(listed[p])) :
      i # j => notesOf(listed[p])[i].id # notesOf(listed[p])[j].id

\* C22: on Gemini, generate returns the data URI built from the first part
\* of the first candidate that carries an inline image payload, whatever
\* parts stand before it without one and whatever parts follow it; without
\* such a part it fails with the no-image error.
firstImage(parts) ==
  {i \in 1..Len(parts) :
     /\ hasImage(parts[i])
     /\ \A j \in 1..(i - 1) : ~hasImage(parts[j])}

C22_FirstImagePart ==
  (aiLast.op = "generate" /\ aiLast.backend = "gemini"
     /\ aiLast.response.kind = "ok" /\ aiLast.response.content.t = "parts") =>
    LET parts == aiLast.response.content.parts IN
    /\ firstImage(parts) = {} => aiLast.result = Rejected(NoImage)
    /\ \A i \in firstImage(parts) :
         /\ aiLast.result =
              Resolved(dataURI(parts[i].inlineData.mimeType,
                               parts[i].inlineData.data))
         /\ uiLast.op = "handleGenerateImage" =>
              generatedImage = Returned("image", aiLast.result.value)
         /\ aiLast.result =
              generateImageWithGemini(
                Response("ok", Candidates("parts", SubSeq(parts, 1, i))))

\* C22 witness: two image parts with different payloads, the first returned
C22_Witness ==
  /\ aiLast.op = "generate"
  /\ aiLast.backend = "gemini"
  /\ aiLast.response.kind = "ok"
  /\ aiLast.response.content.t = "parts"
  /\ Len(aiLast.response.content.parts) = 2
  /\ hasImage(aiLast.response.content.parts[1])
  /\ hasImage(aiLast.response.content.parts[2])
  /\ aiLast.response.content.parts[1].inlineData.data = "BBBB"
  /\ aiLast.response.content.parts[2].inlineData.data = "AAAA"
  /\ aiLast.result = Resolved(dataURI("image/png", "BBBB"))
  /\ generatedImage = Returned("image", dataURI("image/png", "BBBB"))

\* C22 witness of the skipped part: a text part, then the image returned
C22_Skips ==
  /\ aiLast.op = "generate"
  /\ aiLast.backend = "gemini"
  /\ aiLast.response.kind = "ok"
  /\ aiLast.response.content.t = "parts"
  /\ Len(aiLast.response.content.parts) = 2
  /\ ~hasImage(aiLast.response.content.parts[1])
  /\ aiLast.result.status = "ok"

\* C24: toggleFavorite(id) and addNote(id, text) change at most the first
\* entry that has the id, and of it only isFavorite or notes: the number and
\* order of the entries, every other entry and every other field of the
\* matched entry are as they were.
without(plant, field) ==
  [f \in DOMAIN plant \ {field} |-> plant[f]]

C24_Frame ==
  (last.op \in {"toggle", "addNote"} /\ ~last.threw) =>
    LET k == findIndex(listedBefore, last.id)
        field == IF last.op = "toggle" THEN "isFavorite" ELSE "notes"
    IN
    /\ getPlants(storage, readable).t = getPlants(last.pre, readable).t
    /\ Len(listed) = Len(listedBefore)
    /\ \A i \in 1..Len(listed) : i # k => listed[i] = listedBefore[i]
    /\ k # -1 =>
         /\ without(listed[k], field) = without(listedBefore[k], field)
         /\ last.op = "toggle" => notesOf(listed[k]) = notesOf(listedBefore[k])
         /\ last.op = "addNote" =>
              listed[k].isFavorite = listedBefore[k].isFavorite

\* C24 witness: two entries have the id toggled, the second of them with a
\* note; the first of the two is the only entry that changed
C24_Witness ==
  /\ last.op = "toggle"
  /\ last.ret.t = "plant"
  /\ Len(listedBefore) = 2
  /\ CountId(listedBefore, last.id) = 2
  /\ Len(notesOf(listedBefore[2])) = 1
  /\ listed[2] = listedBefore[2]
  /\ listed[1] # listedBefore[1]
  /\ listed[findIndex(listedBefore, last.id)].isFavorite
       # listedBefore[findIndex(listedBefore, last.id)].isFavorite

\* C24 witness of addNote: two entries have the id, and only the notes of
\* the first of them changed
C24_NoteAdded ==
  /\ last.op = "addNote"
  /\ last.ret.t = "plant"
  /\ CountId(listedBefore, last.id) = 2
  /\ Cardinality({i \in 1..Len(listed) : listed[i] # listedBefore[i]}) = 1
  /\ Len(notesOf(listed[findIndex(listedBefore, last.id)])) =
       Len(notesOf(listedBefore[findIndex(listedBefore, last.id)])) + 1

====
